---- MODULE Spec2Model ----
(***************************************************************************)
(* The BadgerEventStore of bloritsch/eventstore: an append-only log of     *)
(* typed events grouped by aggregate, layered on the Badger key-value      *)
(* engine.  Bytes are modelled as their integer codes and strings of bytes *)
(* as sequences of codes, so that the engine's key order is the byte-wise  *)
(* lexicographic order the code relies on.  The engine (Badger), the gob   *)
(* codec, the JSON codec and the ULID library are modelled by what the     *)
(* calls made in the source do.  The store is the one MemoryStore()        *)
(* builds, the store of the repository's tests: MemoryOnly is true, so     *)
(* every badger.Open yields an engine of its own that starts empty and     *)
(* whose data is gone when it is closed.  SpecStored starts instead from   *)
(* a FileStore() whose directory holds records written before, some of     *)
(* them damaged, which the engine its first Read opens finds.              *)
(***************************************************************************)
EXTENDS Integers, Sequences, FiniteSets, TLC

(***************************************************************************)
(* Bounds of the model.                                                    *)
(***************************************************************************)
\* Largest value the system clock (in clock ticks, "nanoseconds") reaches.
MaxClock == 1
\* Clock ticks per millisecond (1,000,000 in reality, scaled down).
TicksPerMs == 2
\* Number of Append / Read / ListKeys / ListKeysForAggregate / Close calls.
MaxOps == 3

(***************************************************************************)
(* Bytes and names.                                                        *)
(***************************************************************************)
\* The nil *badger.DB of an unopened store; handles are 1, 2, ...
Nil == 0
\* The byte ':' that Append and Read put between aggregate and identifier.
Colon == 58

\* Aggregate names the callers use: "a", "ab", "a:b".  The code accepts
\* every string as an aggregate name.
Aggregates == { <<97>>, <<97, 98>>, <<97, 58, 98>> }

\* Payload values: Test{Value: 0}, Test{Value: 1} (the test's struct) and
\* the plain int 7.
TestType == "eventstore.Test"
IntType == "int"
Contents == { [type |-> TestType, Value |-> 0],
              [type |-> TestType, Value |-> 1],
              [type |-> IntType, Value |-> 7] }
NoContent == [type |-> "none", Value |-> 0]

\* Samples passed to Register.
Samples == { [type |-> TestType, Value |-> 0] }

\* gob registers the basic types itself (encoding/gob registerBasics).
GobBasics == { IntType }

\* The aggregates and payloads of the concurrent specification.
ConcAggregates == { <<97>>, <<97, 98>> }
ConcContents == { [type |-> TestType, Value |-> 1] }

Callers == {1, 2}
\* The one caller of the sequential specification.
SeqCallers == {1}

VARIABLES
    db,             \* BadgerEventStore.db: Nil or an engine handle
    typeRegistery,  \* BadgerEventStore.typeRegistery: set of registered tags
    gobRegistry,    \* encoding/gob's process-wide registry of type names
    rootDir,        \* the records badger.Open finds: those under RootDir for
                    \* a FileStore, none for a MemoryStore
    entropy,        \* the *ulid.MonotonicEntropy the last call of NewId built,
                    \* as that call left it
    engines,        \* every engine ever opened: handle -> [status, data]
    clock,          \* the system clock when it was last read, in ticks
    call,           \* per caller: the operation in flight and its locals
    ret,            \* per caller: what its last operation returned
    prev,           \* per caller: the operation invoked before the current one
    appended,       \* log of the Appends that returned success, in order
    nops,           \* number of operations started
    closes          \* number of Close calls that closed an engine

vars == << db, typeRegistery, gobRegistry, rootDir, entropy, engines, clock,
           call, ret, prev, appended, nops, closes >>

(***************************************************************************)
(* Byte strings.                                                           *)
(***************************************************************************)
\* bytes.HasPrefix, as used by Iterator.ValidForPrefix.
HasPrefix(s, p) ==
    /\ Len(p) <= Len(s)
    /\ \A i \in 1..Len(p) : s[i] = p[i]

\* bytes.Compare(a, b) < 0: the engine's key order.
LexLess(a, b) ==
    \E i \in 1..Len(b) :
        /\ i <= Len(a) + 1
        /\ \A j \in 1..(i - 1) : a[j] = b[j]
        /\ (i = Len(a) + 1 \/ a[i] < b[i])

\* The keys of S in ascending byte order.
RECURSIVE SortKeys(_)
SortKeys(S) ==
    IF S = {} THEN << >>
    ELSE LET m == CHOOSE x \in S : \A y \in S \ {x} : LexLess(x, y)
         IN  << m >> \o SortKeys(S \ {m})

(***************************************************************************)
(* Identifiers (idgenerator.go).                                           *)
(***************************************************************************)
\* Crockford's base 32 alphabet, the digits of a ULID's text.
Crockford == << 48, 49, 50, 51, 52, 53, 54, 55, 56, 57,
                65, 66, 67, 68, 69, 70, 71, 72, 74, 75,
                77, 78, 80, 81, 82, 83, 84, 86, 87, 88, 89, 90 >>

\* ulid.Timestamp(t): the millisecond of t.
Timestamp(t) == t \div TicksPerMs

\* The first entropy read from rand.New(rand.NewSource(seed)): a fixed
\* function of the seed, one-to-one on the seeds of the model and not
\* increasing in the seed.
Entropy(seed) == (seed * 20 + 25) % 31

\* rand.New(rand.NewSource(seed)): a generator that has read nothing yet.
NewSource(seed) == [seed |-> seed, reads |-> 0]

\* One read of the generator: its reads are a fixed sequence that starts
\* with Entropy(seed).
RandRead(rnd) ==
    [out |-> (Entropy(rnd.seed) + 7 * rnd.reads) % (Len(Crockford) - 1),
     rnd |-> [rnd EXCEPT !.reads = @ + 1]]

\* No entropy source: NewId has not been called yet.
NoEntropy == [rnd |-> NewSource(0), ms |-> 0, entropy |-> 0]

\* The one entropy source of a process, kept from call to call.
MonotonicKept(rnd) == entropy

\* ulid.Monotonic(rnd, 0): a new MonotonicEntropy over rnd, which has made
\* no identifier yet (its last entropy is zero).
Monotonic(rnd) == [rnd |-> rnd, ms |-> 0, entropy |-> 0]

\* The zero ULID.
NoId == [ms |-> 0, entropy |-> 0]

\* MonotonicEntropy.MonotonicRead(ms): within the millisecond of the
\* identifier it made last, the last entropy incremented (by an amount
\* drawn from the source; by one here), which is an error
\* (ErrMonotonicOverflow) when it passes the largest entropy; otherwise a
\* new read of the source.
MonotonicRead(m, ms) ==
    IF m.entropy # 0 /\ m.ms = ms
    THEN IF m.entropy + 1 > Len(Crockford) - 1
         THEN [ok |-> FALSE, m |-> m]
         ELSE [ok |-> TRUE, m |-> [m EXCEPT !.entropy = @ + 1]]
    ELSE LET r == RandRead(m.rnd)
         IN  [ok |-> TRUE, m |-> [rnd |-> r.rnd, ms |-> ms, entropy |-> r.out]]

\* ulid.MustNew(ms, entropy): the identifier and the source after the read;
\* it panics when the read reports an error.
MustNew(ms, m) ==
    LET r == MonotonicRead(m, ms)
    IN  [panic |-> ~r.ok,
         id |-> IF r.ok THEN [ms |-> ms, entropy |-> r.m.entropy] ELSE NoId,
         entropy |-> r.m]

\* NewId(t), lines 26-29: a generator seeded with t, a monotonic entropy
\* source over it, and the identifier made of the millisecond of t and one
\* read of that source.
NewId(t) == MustNew(Timestamp(t), Monotonic(NewSource(t)))

\* ULID.MarshalText: fixed width, most significant digit first.
MarshalText(id) == << Crockford[id.ms + 1], Crockford[id.entropy + 1] >>

CrockfordValue(ch) == (CHOOSE i \in 1..Len(Crockford) : Crockford[i] = ch) - 1

\* ULID.UnmarshalText.
UnmarshalText(txt) ==
    [ms |-> CrockfordValue(txt[1]), entropy |-> CrockfordValue(txt[2])]

(***************************************************************************)
(* The codecs: typeName, encoding/gob and encoding/json.                   *)
(***************************************************************************)
\* typeName(t): fmt.Sprintf("%T", t).
typeName(t) == t.type

\* An encoder that sends the type's name and none of the value's fields.
GobEncodeNoFields(content, greg) ==
    IF typeName(content) \notin greg
    THEN [ok |-> FALSE, bytes |-> [name |-> "", fields |-> << >>]]
    ELSE [ok |-> TRUE, bytes |-> [name |-> typeName(content), fields |-> << >>]]

\* gob.NewEncoder(&c).Encode(&content): an interface value is sent as the
\* registered name of its concrete type followed by the value; a struct's
\* zero-valued fields are left out.  A concrete type gob does not know
\* is an error.
GobEncode(content, greg) ==
    IF typeName(content) \notin greg
    THEN [ok |-> FALSE, bytes |-> [name |-> "", fields |-> << >>]]
    ELSE [ok |-> TRUE,
          bytes |-> [name |-> typeName(content),
                     fields |-> IF typeName(content) = TestType /\ content.Value = 0
                                THEN << >>
                                ELSE << content.Value >>]]

\* dec.Decode(&v): the concrete type is looked up by the name in the stream,
\* a zero value of it is built and the fields sent are stored in it.
GobDecode(bytes, greg) ==
    IF bytes.name \notin greg
    THEN [ok |-> FALSE, value |-> NoContent]
    ELSE [ok |-> TRUE,
          value |-> [type |-> bytes.name,
                     Value |-> IF bytes.fields = << >> THEN 0 ELSE bytes.fields[1]]]

\* json.Marshal(record): the ULID is written as its text.
JsonMarshal(record) ==
    [Id |-> MarshalText(record.Id), Timestamp |-> record.Timestamp,
     Type |-> record.Type, Content |-> record.Content]

\* json.Unmarshal(val, &record).
JsonUnmarshal(val) ==
    [Id |-> UnmarshalText(val.Id), Timestamp |-> val.Timestamp,
     Type |-> val.Type, Content |-> val.Content]

\* The key of a record: fmt.Sprintf("%s:%s", aggregate, k).
KeyOf(aggregate, id) == aggregate \o << Colon >> \o MarshalText(id)

\* The prefix Read and ListKeysForAggregate scan: aggregate + ":".
PrefixOf(aggregate) == aggregate \o << Colon >>

(***************************************************************************)
(* The engine: a set of [key, value] pairs with one value per key.         *)
(***************************************************************************)
Keys(data) == { e.key : e \in data }

ValueAt(data, key) == (CHOOSE e \in data : e.key = key).value

\* txn.Set(key, value): a key already present is overwritten.
Put(data, key, value) ==
    { e \in data : e.key # key } \cup { [key |-> key, value |-> value] }

\* it.Rewind(); it.Valid(); it.Next(): every key, ascending.
ScanAll(data) == SortKeys(Keys(data))

RECURSIVE WhilePrefix(_, _)
WhilePrefix(keys, prefix) ==
    IF keys = << >> \/ ~HasPrefix(Head(keys), prefix) THEN << >>
    ELSE << Head(keys) >> \o WhilePrefix(Tail(keys), prefix)

\* A scan that starts at the engine's first key instead of seeking.
ScanPrefixFromFirst(data, prefix) ==
    WhilePrefix(SortKeys(Keys(data)), prefix)

\* it.Seek(prefix); it.ValidForPrefix(prefix); it.Next(): from the first key
\* not below the prefix, ascending, until a key lacks the prefix.
ScanPrefix(data, prefix) ==
    WhilePrefix(SortKeys({ k \in Keys(data) : ~LexLess(k, prefix) }), prefix)

(***************************************************************************)
(* Decoding, as Read does it.                                              *)
(***************************************************************************)
\* makeInstance(name): reflect.New of the registered type; reflect.New
\* panics on the nil Type a missing map entry yields.
makeInstance(name, treg) ==
    IF name \in treg THEN [status |-> "ok", value |-> [type |-> name, Value |-> 0]]
    ELSE [status |-> "panic", value |-> NoContent]

\* json.Unmarshal reports an error for an envelope it cannot read; the one
\* damage modelled is an Id whose text has not the width of a ULID
\* (ULID.UnmarshalText: ErrDataSize).
JsonWellFormed(val) == Len(val.Id) = Len(MarshalText(NoId))

\* The callback of item.Value in Read: unmarshal the envelope, make an
\* instance of the record's type, decode the payload.
DecodeItem(val, treg, greg) ==
    IF ~JsonWellFormed(val) THEN [status |-> "error", value |-> NoContent]
    ELSE
    LET record == JsonUnmarshal(val)
        v == makeInstance(record.Type, treg)
        d == GobDecode(record.Content, greg)
    IN  IF v.status = "panic" THEN [status |-> "panic", value |-> NoContent]
        ELSE IF ~d.ok THEN [status |-> "error", value |-> NoContent]
        ELSE [status |-> "ok", value |-> d.value]

\* A scan that returns the values decoded before the failure.
RECURSIVE DecodeAllPartial(_, _, _, _, _)
DecodeAllPartial(keys, data, treg, greg, values) ==
    IF keys = << >> THEN [status |-> "ok", values |-> values]
    ELSE LET r == DecodeItem(ValueAt(data, Head(keys)), treg, greg)
         IN  IF r.status # "ok" THEN [status |-> r.status, values |-> values]
             ELSE DecodeAllPartial(Tail(keys), data, treg, greg,
                                   Append(values, r.value))

RECURSIVE DecodeAll(_, _, _, _, _)
DecodeAll(keys, data, treg, greg, values) ==
    IF keys = << >> THEN [status |-> "ok", values |-> values]
    ELSE LET r == DecodeItem(ValueAt(data, Head(keys)), treg, greg)
         IN  IF r.status # "ok" THEN [status |-> r.status, values |-> << >>]
             ELSE DecodeAll(Tail(keys), data, treg, greg, Append(values, r.value))

\* The body of Read's View: scan the aggregate's prefix and decode every
\* item; the first failure ends the call with no values.
ReadResult(data, aggregate, treg, greg) ==
    DecodeAll(ScanPrefix(data, PrefixOf(aggregate)), data, treg, greg, << >>)

(***************************************************************************)
(* State.                                                                  *)
(***************************************************************************)
NoValue == [Id |-> << >>, Timestamp |-> 0, Type |-> "",
            Content |-> [name |-> "", fields |-> << >>]]

\* A caller between two operations.
Idle == [op |-> "none", pc |-> "idle", agg |-> << >>, content |-> NoContent,
         id |-> NoId, key |-> << >>, value |-> NoValue, db |-> Nil,
         snap |-> {}, keys |-> << >>, from |-> 0]

\* What an operation returned: status is "ok", "error" or "panic"; the
\* other fields are the results and what the properties need to know of
\* the state the call ran in.
NoRet == [op |-> "none", agg |-> << >>, content |-> NoContent, status |-> "none",
          values |-> << >>, keys |-> << >>, fresh |-> FALSE, registered |-> FALSE,
          from |-> 0, to |-> 0, store |-> 0, changed |-> FALSE,
          successes |-> 0, closes |-> 0]

AllIdle == \A c \in Callers : call[c].pc = "idle"

Init ==
    /\ db = Nil
    /\ typeRegistery = {}
    /\ gobRegistry = GobBasics
    /\ rootDir = {}
    /\ entropy = NoEntropy
    /\ engines = << >>
    /\ clock = 0
    /\ call = [c \in Callers |-> Idle]
    /\ ret = [c \in Callers |-> NoRet]
    /\ prev = [c \in Callers |-> NoRet]
    /\ appended = << >>
    /\ nops = 0
    /\ closes = 0

\* What the next operation's properties need of the one before it: a
\* successful Append or a Close, and nothing of any other operation.
Summary(r) ==
    IF (r.op = "Append" /\ r.status = "ok") \/ r.op = "Close"
    THEN [NoRet EXCEPT !.op = r.op, !.agg = r.agg, !.content = r.content,
                       !.status = r.status, !.fresh = r.fresh,
                       !.registered = r.registered, !.changed = r.changed]
    ELSE NoRet

\* Caller c invokes an operation: its frame is pushed, the result of its
\* last operation is gone and remembered as the operation before.
Invoke(c, frame) ==
    /\ call[c].pc = "idle"
    /\ nops < MaxOps
    /\ nops' = nops + 1
    /\ call' = [call EXCEPT ![c] = frame]
    /\ ret' = [ret EXCEPT ![c] = NoRet]
    /\ prev' = [prev EXCEPT ![c] = Summary(ret[c])]

\* Caller c invokes an operation that returns r in its first step.
InvokeReturn(c, r) ==
    /\ call[c].pc = "idle"
    /\ nops < MaxOps
    /\ nops' = nops + 1
    /\ call' = call
    /\ ret' = [ret EXCEPT ![c] = r]
    /\ prev' = [prev EXCEPT ![c] = Summary(ret[c])]

\* Caller c's operation in flight returns r.
Return(c, r) ==
    /\ ret' = [ret EXCEPT ![c] = r]
    /\ call' = [call EXCEPT ![c] = Idle]
    /\ prev' = prev

\* The fields every result carries: the operation, and the log and the
\* count of closes as of the return.
Result(op, aggregate, from) ==
    [NoRet EXCEPT !.op = op, !.agg = aggregate, !.from = from,
                  !.to = Len(appended), !.successes = Len(appended),
                  !.closes = closes]

(***************************************************************************)
(* kvstore(): the lazily opened engine handle.                             *)
(***************************************************************************)
\* if b.db != nil { return b.db, nil }: the caller goes on with the handle
\* it read, or goes to open an engine.
EnterKvstore(frame) ==
    [frame EXCEPT !.pc = IF db # Nil THEN "txn" ELSE "open", !.db = db]

\* A kvstore that stores the handle of the engine whose open failed.
KvstoreOpenHalf(c) ==
    /\ call[c].pc = "open"
    /\ \/ /\ Return(c, [Result(call[c].op, call[c].agg, call[c].from)
                            EXCEPT !.content = call[c].content,
                                   !.status = "error"])
          /\ engines' = Append(engines, [status |-> "closed", data |-> {}])
          /\ db' = Len(engines) + 1
       \/ /\ engines' = Append(engines, [status |-> "open", data |-> rootDir])
          /\ db' = Len(engines) + 1
          /\ call' = [call EXCEPT ![c].pc = "txn", ![c].db = Len(engines) + 1]
          /\ UNCHANGED << ret, prev >>
    /\ UNCHANGED << typeRegistery, gobRegistry, rootDir, entropy, clock,
                    appended, nops, closes >>

\* badger.Open(opts) and b.db = db.  Open may fail; when it succeeds it
\* yields a new engine, which holds what badger finds: nothing in memory,
\* the records of the directory for a FileStore.
KvstoreOpen(c) ==
    /\ call[c].pc = "open"
    /\ \/ /\ Return(c, [Result(call[c].op, call[c].agg, call[c].from)
                            EXCEPT !.content = call[c].content,
                                   !.status = "error"])
          /\ UNCHANGED << db, engines >>
       \/ /\ engines' = Append(engines, [status |-> "open", data |-> rootDir])
          /\ db' = Len(engines) + 1
          /\ call' = [call EXCEPT ![c].pc = "txn", ![c].db = Len(engines) + 1]
          /\ UNCHANGED << ret, prev >>
    /\ UNCHANGED << typeRegistery, gobRegistry, rootDir, entropy, clock,
                    appended, nops, closes >>

(***************************************************************************)
(* Append.                                                                 *)
(***************************************************************************)
\* Lines 88-113: read the clock, build the record, encode the payload,
\* derive key and value.  A panic of NewId or a payload gob cannot encode
\* ends the call.
\* time.Now() yields now: the clock has not gone back since it was last
\* read, and may not have advanced.
AppendBegin(c, aggregate, content, now) ==
    /\ now >= clock
    /\ clock' = now
    /\ entropy' = NewId(now).entropy
    /\ LET id == NewId(now).id
           enc == GobEncode(content, gobRegistry)
           record == [Id |-> id, Timestamp |-> now, Type |-> typeName(content),
                      Content |-> enc.bytes]
       IN  IF NewId(now).panic
           THEN InvokeReturn(c, [Result("Append", aggregate, Len(appended))
                                    EXCEPT !.content = content, !.status = "panic",
                                           !.registered =
                                               typeName(content) \in typeRegistery])
           ELSE IF ~enc.ok
           THEN InvokeReturn(c, [Result("Append", aggregate, Len(appended))
                                    EXCEPT !.content = content, !.status = "error",
                                           !.registered =
                                               typeName(content) \in typeRegistery])
           ELSE Invoke(c, [Idle EXCEPT !.op = "Append", !.pc = "kv",
                                       !.agg = aggregate, !.content = content,
                                       !.id = id, !.key = KeyOf(aggregate, id),
                                       !.value = JsonMarshal(record),
                                       !.from = Len(appended)])
    /\ UNCHANGED << db, typeRegistery, gobRegistry, rootDir, engines,
                    appended, closes >>

\* Line 115: db, err := b.kvstore().
AppendKvstore(c) ==
    /\ call[c].pc = "kv"
    /\ call' = [call EXCEPT ![c] = EnterKvstore(call[c])]
    /\ UNCHANGED << db, typeRegistery, gobRegistry, rootDir, entropy, engines,
                    clock, ret, prev, appended, nops, closes >>

\* An Update whose write stays in the engine when the transaction fails.
AppendUpdatePartial(c) ==
    /\ call[c].pc = "txn"
    /\ call[c].op = "Append"
    /\ LET h == call[c].db
           r == [Result("Append", call[c].agg, call[c].from)
                    EXCEPT !.content = call[c].content,
                           !.registered = typeName(call[c].content) \in typeRegistery,
                           !.fresh = ScanPrefix(engines[h].data,
                                                PrefixOf(call[c].agg)) = << >>,
                           !.store = h]
       IN  /\ engines' = [engines EXCEPT ![h].data =
                              IF engines[h].status = "open"
                              THEN Put(@, call[c].key, call[c].value) ELSE @]
           /\ \/ /\ Return(c, [r EXCEPT !.status = "error"])
                 /\ UNCHANGED appended
              \/ /\ engines[h].status = "open"
                 /\ appended' = Append(appended,
                                       [agg |-> call[c].agg, content |-> call[c].content,
                                        id |-> call[c].id, key |-> call[c].key,
                                        store |-> h])
                 /\ Return(c, [r EXCEPT !.status = "ok", !.to = Len(appended) + 1,
                                        !.successes = Len(appended) + 1])
    /\ UNCHANGED << db, typeRegistery, gobRegistry, rootDir, entropy, clock, nops, closes >>

\* Lines 120-129: db.Update(txn.Set(key, value)).  The transaction commits
\* the one key or fails and writes nothing; a closed engine refuses it.
AppendUpdate(c) ==
    /\ call[c].pc = "txn"
    /\ call[c].op = "Append"
    /\ LET h == call[c].db
           r == [Result("Append", call[c].agg, call[c].from)
                    EXCEPT !.content = call[c].content,
                           !.registered = typeName(call[c].content) \in typeRegistery,
                           !.fresh = ScanPrefix(engines[h].data,
                                                PrefixOf(call[c].agg)) = << >>,
                           !.store = h]
       IN  \/ /\ Return(c, [r EXCEPT !.status = "error"])
              /\ UNCHANGED << engines, appended >>
           \/ /\ engines[h].status = "open"
              /\ engines' = [engines EXCEPT ![h].data =
                                 Put(@, call[c].key, call[c].value)]
              /\ appended' = Append(appended,
                                    [agg |-> call[c].agg, content |-> call[c].content,
                                     id |-> call[c].id, key |-> call[c].key,
                                     store |-> h])
              /\ Return(c, [r EXCEPT !.status = "ok", !.to = Len(appended) + 1,
                                     !.successes = Len(appended) + 1])
    /\ UNCHANGED << db, typeRegistery, gobRegistry, rootDir, entropy, clock, nops, closes >>

(***************************************************************************)
(* Read.                                                                   *)
(***************************************************************************)
\* Lines 147-154: db, err := b.kvstore(); prefix := aggregate + ":".
ReadBegin(c, aggregate) ==
    /\ Invoke(c, EnterKvstore([Idle EXCEPT !.op = "Read", !.agg = aggregate,
                                           !.from = Len(appended)]))
    /\ UNCHANGED << db, typeRegistery, gobRegistry, rootDir, entropy, engines,
                    clock, appended, closes >>

\* What a read-only transaction on engine h sees: the engine's committed
\* state as of the transaction's start.
Snapshot(h) == engines[h].data

\* Line 156: db.View opens a read-only transaction on the engine's state as
\* of now; a closed engine refuses it.
ReadView(c) ==
    /\ call[c].pc = "txn"
    /\ call[c].op = "Read"
    /\ IF engines[call[c].db].status # "open"
       THEN Return(c, [Result("Read", call[c].agg, call[c].from)
                          EXCEPT !.status = "error",
                                 !.store = call[c].db])
       ELSE /\ call' = [call EXCEPT ![c].pc = "scan",
                                    ![c].snap = Snapshot(call[c].db)]
            /\ UNCHANGED << ret, prev >>
    /\ UNCHANGED << db, typeRegistery, gobRegistry, rootDir, entropy, engines,
                    clock, appended, nops, closes >>

\* A scan that deletes from the engine the records it has returned.
ReadScanConsuming(c) ==
    /\ call[c].pc = "scan"
    /\ LET res == ReadResult(call[c].snap, call[c].agg, typeRegistery, gobRegistry)
           seen == ScanPrefix(call[c].snap, PrefixOf(call[c].agg))
       IN  /\ Return(c, [Result("Read", call[c].agg, call[c].from)
                            EXCEPT !.status = res.status, !.values = res.values,
                                   !.store = call[c].db])
           /\ engines' = [engines EXCEPT ![call[c].db].data =
                              { e \in @ : \A i \in 1..Len(seen) : e.key # seen[i] }]
    /\ UNCHANGED << db, typeRegistery, gobRegistry, rootDir, entropy,
                    clock, appended, nops, closes >>

\* Lines 157-190: the scan of the transaction's snapshot and the return.
ReadScan(c) ==
    /\ call[c].pc = "scan"
    /\ LET res == ReadResult(call[c].snap, call[c].agg, typeRegistery, gobRegistry)
       IN  Return(c, [Result("Read", call[c].agg, call[c].from)
                         EXCEPT !.status = res.status, !.values = res.values,
                                !.store = call[c].db])
    /\ UNCHANGED << db, typeRegistery, gobRegistry, rootDir, entropy, engines,
                    clock, appended, nops, closes >>

(***************************************************************************)
(* ListKeys and ListKeysForAggregate.                                      *)
(***************************************************************************)
\* Lines 194-199.
ListKeysBegin(c) ==
    /\ Invoke(c, EnterKvstore([Idle EXCEPT !.op = "ListKeys",
                                           !.from = Len(appended)]))
    /\ UNCHANGED << db, typeRegistery, gobRegistry, rootDir, entropy, engines,
                    clock, appended, closes >>

\* Lines 201-217: every key of the engine, keys only.
ListKeysView(c) ==
    /\ call[c].pc = "txn"
    /\ call[c].op = "ListKeys"
    /\ LET h == call[c].db
           r == [Result("ListKeys", << >>, call[c].from)
                    EXCEPT !.store = h]
       IN  IF engines[h].status # "open"
           THEN Return(c, [r EXCEPT !.status = "error"])
           ELSE Return(c, [r EXCEPT !.status = "ok",
                                    !.keys = ScanAll(engines[h].data)])
    /\ UNCHANGED << db, typeRegistery, gobRegistry, rootDir, entropy, engines,
                    clock, appended, nops, closes >>

\* Lines 221-227.
ListKeysForAggregateBegin(c, aggregate) ==
    /\ Invoke(c, EnterKvstore([Idle EXCEPT !.op = "ListKeysForAggregate",
                                           !.agg = aggregate,
                                           !.from = Len(appended)]))
    /\ UNCHANGED << db, typeRegistery, gobRegistry, rootDir, entropy, engines,
                    clock, appended, closes >>

\* Lines 229-238: db.View and the loop that collects the keys with the
\* aggregate's prefix; a closed engine refuses the View.
ListKeysForAggregateView(c) ==
    /\ call[c].pc = "txn"
    /\ call[c].op = "ListKeysForAggregate"
    /\ LET h == call[c].db
       IN  IF engines[h].status # "open"
           THEN Return(c, [Result("ListKeysForAggregate", call[c].agg, call[c].from)
                              EXCEPT !.status = "error", !.store = h])
           ELSE /\ call' = [call EXCEPT ![c].pc = "sleep",
                                        ![c].keys = ScanPrefix(Snapshot(h),
                                                               PrefixOf(call[c].agg))]
                /\ UNCHANGED << ret, prev >>
    /\ UNCHANGED << db, typeRegistery, gobRegistry, rootDir, entropy, engines,
                    clock, appended, nops, closes >>

\* Lines 240-246: after time.Sleep(1 * time.Millisecond) inside the View,
\* the keys collected before it are returned.
ListKeysForAggregateReturn(c) ==
    /\ call[c].pc = "sleep"
    /\ Return(c, [Result("ListKeysForAggregate", call[c].agg, call[c].from)
                      EXCEPT !.status = "ok", !.keys = call[c].keys,
                             !.store = call[c].db])
    /\ UNCHANGED << db, typeRegistery, gobRegistry, rootDir, entropy, engines,
                    clock, appended, nops, closes >>

(***************************************************************************)
(* Close and Register.                                                     *)
(***************************************************************************)
\* A Close that closes the engine and leaves b.db as it was.
CloseKeepsHandle(c) ==
    /\ AllIdle
    /\ LET r == [Result("Close", << >>, Len(appended)) EXCEPT !.store = db]
       IN  IF db = Nil
           THEN /\ InvokeReturn(c, [r EXCEPT !.status = "ok"])
                /\ UNCHANGED << db, engines, closes >>
           ELSE /\ engines' = [engines EXCEPT ![db] = [status |-> "closed",
                                                       data |-> {}]]
                /\ closes' = closes + 1
                /\ db' = db
                /\ \/ InvokeReturn(c, [r EXCEPT !.status = "ok", !.changed = TRUE,
                                                 !.closes = closes + 1])
                   \/ /\ engines[db].status = "open"
                      /\ InvokeReturn(c, [r EXCEPT !.status = "error",
                                                   !.changed = TRUE,
                                                   !.closes = closes + 1])
    /\ UNCHANGED << typeRegistery, gobRegistry, rootDir, entropy, clock, appended >>

\* Close(): with no handle set, nothing to do.  Otherwise the engine is
\* closed; if it reports an error the error is returned and the handle is
\* kept, else the handle is unset.  An engine closes once: closing it again
\* reports no error.  A closed engine holds no data.  Close is not called
\* while an operation is in flight.
Close(c) ==
    /\ AllIdle
    /\ LET r == [Result("Close", << >>, Len(appended)) EXCEPT !.store = db]
       IN  IF db = Nil
           THEN /\ InvokeReturn(c, [r EXCEPT !.status = "ok"])
                /\ UNCHANGED << db, engines, closes >>
           ELSE /\ engines' = [engines EXCEPT ![db] = [status |-> "closed",
                                                       data |-> {}]]
                /\ closes' = closes + 1
                /\ \/ /\ db' = Nil
                      /\ InvokeReturn(c, [r EXCEPT !.status = "ok",
                                                   !.changed = TRUE,
                                                   !.closes = closes + 1])
                   \/ /\ engines[db].status = "open"
                      /\ db' = db
                      /\ InvokeReturn(c, [r EXCEPT !.status = "error",
                                                   !.changed = TRUE,
                                                   !.closes = closes + 1])
    /\ UNCHANGED << typeRegistery, gobRegistry, rootDir, entropy, clock, appended >>

\* Register(t): gob.Register(t) and b.typeRegistery[typeName(t)] = its type.
\* The map is not written while an operation is in flight.
Register(c, t) ==
    /\ AllIdle
    /\ gobRegistry' = gobRegistry \cup { typeName(t) }
    /\ typeRegistery' = typeRegistery \cup { typeName(t) }
    /\ UNCHANGED << db, rootDir, entropy, engines, clock, call, ret, prev,
                    appended, nops, closes >>

(***************************************************************************)
(* Specifications.                                                         *)
(***************************************************************************)
\* A step of an Append of caller c, or of its kvstore(); its calls take
\* their aggregates from aggs and their payloads from vals.
WriterStep(c, aggs, vals) ==
    \/ \E a \in aggs, v \in vals, now \in 0..MaxClock :
           AppendBegin(c, a, v, now)
    \/ AppendKvstore(c)
    \/ AppendUpdate(c)
    \/ KvstoreOpen(c)

\* A step of any other operation of caller c.
ReaderStep(c, aggs) ==
    \/ \E a \in aggs : ReadBegin(c, a)
    \/ ReadView(c)
    \/ ReadScan(c)
    \/ ListKeysBegin(c)
    \/ ListKeysView(c)
    \/ \E a \in aggs : ListKeysForAggregateBegin(c, a)
    \/ ListKeysForAggregateView(c)
    \/ ListKeysForAggregateReturn(c)
    \/ Close(c)
    \/ \E t \in Samples : Register(c, t)

\* One caller: every operation returns before the next is invoked.
Next ==
    \E c \in SeqCallers :
        WriterStep(c, Aggregates, Contents) \/ ReaderStep(c, Aggregates)

Spec == Init /\ [][Next]_vars

\* Two callers invoking operations concurrently: both append, the first
\* also reads, lists, closes and registers.
NextConc ==
    \/ \E c \in Callers : WriterStep(c, ConcAggregates, ConcContents)
    \/ \E c \in SeqCallers : ReaderStep(c, ConcAggregates)

SpecConc == Init /\ [][NextConc]_vars

\* A FileStore() on a directory of records written before, some of them
\* damaged: under each of the keys of StoredKeys there is no record, or one
\* of the records of StoredValues.  The handle is unset; the first Read
\* opens the engine.
StoredKeys ==
    { KeyOf(<< 97 >>, NewId(t).id) : t \in 0..MaxClock }
        \cup { KeyOf(<< 97, 98 >>, NewId(0).id) }

\* A record as Append writes it, of a Test value and of an int; one whose
\* envelope is cut short; one whose payload is not a gob stream.  The Id
\* in the envelope, which Read does not look at, is the zero ULID.
StoredValues ==
    LET good(v) == JsonMarshal([Id |-> NoId, Timestamp |-> 0,
                                Type |-> typeName(v),
                                Content |-> GobEncode(v, GobBasics \cup { TestType }).bytes])
        test == good([type |-> TestType, Value |-> 1])
    IN  { test,
          good([type |-> IntType, Value |-> 7]),
          [test EXCEPT !.Id = << >>],
          [test EXCEPT !.Content = [name |-> "", fields |-> << >>]] }

InitStored ==
    /\ \E ks \in SUBSET StoredKeys :
           \E f \in [ks -> StoredValues] :
               rootDir = { [key |-> k, value |-> f[k]] : k \in ks }
    /\ engines = << >>
    /\ entropy = NoEntropy
    /\ db = Nil
    /\ typeRegistery = {}
    /\ gobRegistry = GobBasics
    /\ clock = 0
    /\ call = [c \in Callers |-> Idle]
    /\ ret = [c \in Callers |-> NoRet]
    /\ prev = [c \in Callers |-> NoRet]
    /\ appended = << >>
    /\ nops = 0
    /\ closes = 0

\* Register called before the store's first operation, as the tests do.
RegisterFirst(c, t) ==
    /\ nops = 0
    /\ Register(c, t)

\* The types are registered before the store is read, then one caller reads.
NextStored ==
    \E c \in SeqCallers :
        \/ \E t \in Samples : RegisterFirst(c, t)
        \/ \E a \in ConcAggregates : ReadBegin(c, a)
        \/ KvstoreOpen(c)
        \/ ReadView(c)
        \/ ReadScan(c)

SpecStored == InitStored /\ [][NextStored]_vars

(***************************************************************************)
(* What the properties speak of.                                           *)
(***************************************************************************)
\* The first n entries of the log of successful Appends.
LogUpTo(n) == SubSeq(appended, 1, n)

\* The values appended with success to aggregate A among the first n
\* entries of the log, in the order the Appends were made.
AppendedTo(A, n) ==
    LET InA(e) == e.agg = A
        es == SelectSeq(LogUpTo(n), InA)
    IN  [i \in 1..Len(es) |-> es[i].content]

\* No two entries of the first n of the log carry the same identifier.
DistinctIds(n) ==
    \A i, j \in 1..n : i # j => appended[i].id # appended[j].id

\* The first n entries of the log hold no record of another aggregate
\* under the prefix of aggregate A.
NoForeignKey(A, n) ==
    \A i \in 1..n : HasPrefix(appended[i].key, PrefixOf(A)) => appended[i].agg = A

(***************************************************************************)
(* C1.  Ordering: a Read of aggregate A made after Appends of v1 .. vN to  *)
(* A returned success (the clock never going back, several Appends maybe   *)
(* in one millisecond, Appends to other aggregates in between) returns     *)
(* exactly v1 .. vN in the order appended.  Stated of the runs of one      *)
(* caller in which no engine was closed, every record got an identifier of *)
(* its own and no other aggregate's key falls under A's prefix.            *)
(***************************************************************************)
C1_ReadInAppendOrder ==
    \A c \in Callers :
        ( /\ ret[c].op = "Read"
          /\ ret[c].status = "ok"
          /\ ret[c].closes = 0
          /\ DistinctIds(ret[c].to)
          /\ NoForeignKey(ret[c].agg, ret[c].to) )
        => ret[c].values = AppendedTo(ret[c].agg, ret[c].to)

(***************************************************************************)
(* C2.  Round trip: an Append of a value v of a registered type to an      *)
(* aggregate A with no records, returning success, followed by Read(A),    *)
(* makes the Read return no error and the one-element sequence << v >>.    *)
(***************************************************************************)
IsRoundTrip(c) ==
    /\ ret[c].op = "Read"
    /\ prev[c].op = "Append"
    /\ prev[c].status = "ok"
    /\ prev[c].agg = ret[c].agg
    /\ prev[c].fresh
    /\ prev[c].registered

C2_RoundTrip ==
    \A c \in Callers :
        IsRoundTrip(c) =>
            /\ ret[c].status = "ok"
            /\ ret[c].values = << prev[c].content >>

\* A round trip of a value whose field gob sends.
C2_Witness ==
    \E c \in Callers :
        /\ IsRoundTrip(c)
        /\ ret[c].values = << [type |-> TestType, Value |-> 1] >>

(***************************************************************************)
(* C3.  Identifier uniqueness: no two records written by successful        *)
(* Appends carry the same identifier.                                      *)
(***************************************************************************)
C3_UniqueIdentifiers == DistinctIds(Len(appended))

(***************************************************************************)
(* C4.  Key listing completeness: ListKeys returns as many keys as Appends *)
(* have returned success since the store was created.  Stated of the runs  *)
(* in which no engine was closed.                                          *)
(***************************************************************************)
C4_ListKeysCountsAppends ==
    \A c \in Callers :
        (ret[c].op = "ListKeys" /\ ret[c].status = "ok" /\ ret[c].closes = 0)
        => Len(ret[c].keys) = ret[c].successes

(***************************************************************************)
(* C5.  Isolation: a successful Append to aggregate A leaves what Read(B)  *)
(* returns unchanged for every other aggregate B: the records the prefix   *)
(* scan for B yields are the same before and after.                        *)
(***************************************************************************)
\* Caller c's Append commits in this step.
Commits(c) ==
    /\ call[c].op = "Append"
    /\ call[c].pc = "txn"
    /\ call'[c].pc = "idle"
    /\ ret'[c].status = "ok"

C5_Isolation ==
    [][ \A c \in Callers :
          Commits(c) =>
            \A B \in Aggregates \ { call[c].agg } :
                ScanPrefix(engines'[call[c].db].data, PrefixOf(B))
                    = ScanPrefix(engines[call[c].db].data, PrefixOf(B))
      ]_vars

(***************************************************************************)
(* C6.  Unregistered type: an Append of a value whose type was never       *)
(* passed to Register returns an error, and no Read panics: a record whose *)
(* type tag the registry lacks makes the Read return an error.             *)
(***************************************************************************)
C6_UnregisteredIsAnError ==
    \A c \in Callers :
        /\ (ret[c].op = "Append" /\ ~ret[c].registered) => ret[c].status = "error"
        /\ ret[c].op = "Read" => ret[c].status # "panic"

(***************************************************************************)
(* C7.  Initialize once: whatever the callers' first operations, no engine *)
(* is open that the store's handle does not refer to.                      *)
(***************************************************************************)
C7_NoLeakedEngine ==
    \A h \in 1..Len(engines) : engines[h].status = "open" => db = h

(***************************************************************************)
(* C8.  Concurrent Appends: once every call has returned, each Append that *)
(* returned success has its record, once, in the store a Read would now   *)
(* use.  Stated of the runs in which every call made was an Append that    *)
(* returned success and every record got an identifier of its own.         *)
(***************************************************************************)
C8_NoAppendLost ==
    ( /\ AllIdle
      /\ appended # << >>
      /\ nops = Len(appended)
      /\ DistinctIds(Len(appended)) )
    => /\ db # Nil
       /\ \A i \in 1..Len(appended) : appended[i].key \in Keys(engines[db].data)
       /\ Cardinality(Keys(engines[db].data)) = Len(appended)

(***************************************************************************)
(* C9.  Snapshot read: a Read(A) that runs while Appends are made returns  *)
(* exactly the records of A that were committed at one point between its   *)
(* invocation and its return: every record of A an Append had committed by *)
(* then (for each key the value last committed), and no record of a write  *)
(* not yet committed.  Stated of the runs in which no engine was closed.   *)
(***************************************************************************)
\* The entries among the first t of the log that are the records under
\* prefix p: of two entries with one key the later has replaced the earlier.
Committed(p, t) ==
    { i \in 1..t :
        /\ HasPrefix(appended[i].key, p)
        /\ \A j \in (i + 1)..t : appended[j].key # appended[i].key }

\* Their values in ascending order of key.
CommittedValues(A, t) ==
    LET is == Committed(PrefixOf(A), t)
        ks == SortKeys({ appended[i].key : i \in is })
    IN  [n \in 1..Len(ks) |->
            appended[CHOOSE i \in is : appended[i].key = ks[n]].content]

C9_SnapshotRead ==
    \A c \in Callers :
        (ret[c].op = "Read" /\ ret[c].status = "ok" /\ ret[c].closes = 0)
        => \E t \in ret[c].from..ret[c].to :
               ret[c].values = CommittedValues(ret[c].agg, t)

(***************************************************************************)
(* C10.  Idempotent Close.  As claimed: every Close returns success, and a *)
(* Close that follows a Close changes nothing.                             *)
(***************************************************************************)
C10_CloseAlwaysSucceeds ==
    \A c \in Callers :
        ret[c].op = "Close" =>
            /\ ret[c].status = "ok"
            /\ prev[c].op = "Close" => ~ret[c].changed

(***************************************************************************)
(* C10, amended.  A Close on a store whose handle is unset (never opened,  *)
(* or closed with success before) returns success and changes nothing, so  *)
(* a Close that follows a successful Close is a no-op; a Close on a store  *)
(* whose handle is set returns success and unsets the handle unless the    *)
(* engine's Close reports an error, and then it returns the error and      *)
(* keeps the handle.                                                       *)
(***************************************************************************)
C10_CloseIdempotent ==
    \A c \in Callers :
        ret[c].op = "Close" =>
            /\ ret[c].store = Nil => (ret[c].status = "ok" /\ ~ret[c].changed)
            /\ ret[c].status = "ok" => db = Nil
            /\ ret[c].status = "error" => (db = ret[c].store /\ db # Nil)
            /\ (prev[c].op = "Close" /\ prev[c].status = "ok")
                   => (ret[c].status = "ok" /\ ~ret[c].changed)

\* A Close that closed an engine, followed by a Close.
C10_Witness ==
    \E c \in Callers :
        /\ ret[c].op = "Close"
        /\ ret[c].status = "ok"
        /\ prev[c].op = "Close"
        /\ prev[c].status = "ok"
        /\ prev[c].changed

(***************************************************************************)
(* C11.  Record immutability: a record a successful Append has written     *)
(* keeps its key and its value through every later Append, Read, ListKeys  *)
(* and ListKeysForAggregate: as long as its engine is open, a step leaves  *)
(* every stored record in place, so an Append only ever adds a key.        *)
(***************************************************************************)
C11_AppendOnly ==
    [][ \A h \in 1..Len(engines) :
          (engines[h].status = "open" /\ engines'[h].status = "open")
          => engines[h].data \subseteq engines'[h].data
      ]_vars

(***************************************************************************)
(* C12.  ListKeysForAggregate(A) returns exactly the keys of the store     *)
(* that start with A's prefix, every such key and no other: what ListKeys  *)
(* would return, restricted to the keys with that prefix, in ascending     *)
(* order of key.                                                           *)
(***************************************************************************)
C12_ListKeysForAggregateExact ==
    \A c \in Callers :
        (ret[c].op = "ListKeysForAggregate" /\ ret[c].status = "ok")
        => LET InA(k) == HasPrefix(k, PrefixOf(ret[c].agg))
           IN  /\ ret[c].keys = SelectSeq(ScanAll(engines[ret[c].store].data), InA)
               /\ \A i, j \in 1..Len(ret[c].keys) :
                      i < j => LexLess(ret[c].keys[i], ret[c].keys[j])

\* A listing that returned keys from a store that also holds a key below
\* them without the prefix.
C12_Witness ==
    \E c \in Callers :
        /\ ret[c].op = "ListKeysForAggregate"
        /\ ret[c].status = "ok"
        /\ ret[c].keys # << >>
        /\ \E k \in Keys(engines[ret[c].store].data) :
               /\ ~HasPrefix(k, PrefixOf(ret[c].agg))
               /\ LexLess(k, ret[c].keys[1])

(***************************************************************************)
(* C13.  Read aborts on the first decode failure: when a record of the     *)
(* prefix scan of Read(A) fails to decode (its envelope or its payload is  *)
(* malformed) and the records scanned before it decoded, Read returns an   *)
(* error and no values: the bad record is not skipped and the values       *)
(* decoded before it are not returned.                                     *)
(***************************************************************************)
\* The keys Read(A) of caller c scanned, and how the i-th of them decodes.
ScannedBy(c) ==
    ScanPrefix(engines[ret[c].store].data, PrefixOf(ret[c].agg))

DecodesAs(c, i) ==
    DecodeItem(ValueAt(engines[ret[c].store].data, ScannedBy(c)[i]),
               typeRegistery, gobRegistry).status

C13_ReadAbortsOnDecodeFailure ==
    \A c \in Callers :
        (ret[c].op = "Read" /\ ret[c].store # Nil) =>
            \A i \in 1..Len(ScannedBy(c)) :
                ( /\ DecodesAs(c, i) = "error"
                  /\ \A j \in 1..(i - 1) : DecodesAs(c, j) = "ok" )
                => /\ ret[c].status = "error"
                   /\ ret[c].values = << >>

\* A Read whose scan decoded a record and then met a malformed one.
C13_Witness ==
    \E c \in Callers :
        /\ ret[c].op = "Read"
        /\ ret[c].store # Nil
        /\ ret[c].status = "error"
        /\ Len(ScannedBy(c)) >= 2
        /\ DecodesAs(c, 1) = "ok"
        /\ DecodesAs(c, 2) = "error"

(***************************************************************************)
(* C14.  Append is all-or-nothing: an Append that returns success has      *)
(* committed its one record, under its aggregate's prefix, and has written *)
(* nothing else; an Append that returns an error (encode failure,          *)
(* engine-open failure, transaction failure) has left every stored record  *)
(* as it was.  Whether the record's key is a new one is the matter of C11. *)
(***************************************************************************)
\* Caller c's Append returns in this step.
AppendReturns(c) ==
    /\ ret'[c].op = "Append"
    /\ call'[c].pc = "idle"
    /\ (call[c].op = "Append" \/ nops' # nops)

C14_AppendAllOrNothing ==
    [][ \A c \in Callers :
          AppendReturns(c) =>
            IF ret'[c].status = "ok"
            THEN LET h == call[c].db
                     others(data) == { e \in data : e.key # call[c].key }
                 IN  /\ [key |-> call[c].key, value |-> call[c].value]
                            \in engines'[h].data
                     /\ HasPrefix(call[c].key, PrefixOf(call[c].agg))
                     /\ others(engines'[h].data) = others(engines[h].data)
                     /\ Cardinality(engines'[h].data \ others(engines'[h].data)) = 1
                     /\ \A g \in (1..Len(engines)) \ {h} : engines'[g] = engines[g]
            ELSE engines' = engines
      ]_vars

\* An Append whose transaction failed on a store that holds records.
C14_Witness ==
    \E c \in Callers :
        /\ ret[c].op = "Append"
        /\ ret[c].status = "error"
        /\ ret[c].store # Nil
        /\ engines[ret[c].store].data # {}

(***************************************************************************)
(* C15.  Identifier monotonicity: of two calls NewId(t1) and NewId(t2)     *)
(* with t1 <= t2, also within one millisecond, the text of the first       *)
(* identifier does not sort after the text of the second.  One caller's    *)
(* Appends read a clock that never goes back, so the identifiers in the    *)
(* log were made from timestamps in ascending order.                       *)
(***************************************************************************)
C15_MonotoneIdentifiers ==
    \A i, j \in 1..Len(appended) :
        i < j => ~LexLess(MarshalText(appended[j].id), MarshalText(appended[i].id))

(***************************************************************************)
(* C16.  Empty read: a Read(A) of an aggregate A to which nothing was      *)
(* appended returns no values and no error, whatever the other aggregates  *)
(* hold and whether the engine was open before the call or not.  Stated of *)
(* the Reads the engine did not fail (it opened, and accepted the View)    *)
(* on stores whose records all have a registered type.                     *)
(***************************************************************************)
C16_EmptyRead ==
    \A c \in Callers :
        ( /\ ret[c].op = "Read"
          /\ ret[c].status \in { "ok", "panic" }
          /\ \A i \in 1..ret[c].to :
                 /\ appended[i].agg # ret[c].agg
                 /\ typeName(appended[i].content) \in typeRegistery )
        => /\ ret[c].status = "ok"
           /\ ret[c].values = << >>

(***************************************************************************)
(* C17.  Reopen after Close: the operation that follows a successful Close *)
(* runs its transaction on an engine that is open and that the handle      *)
(* refers to: kvstore has opened one, the operation does not meet a closed *)
(* store.  The handle changes in two ways only: kvstore sets the unset     *)
(* handle to an engine it has opened, and a Close that returns success     *)
(* unsets it.                                                              *)
(***************************************************************************)
C17_ReopenAfterClose ==
    [][ /\ db' # db =>
            \/ /\ db = Nil
               /\ engines'[db'].status = "open"
               /\ \E c \in Callers : call[c].pc = "open" /\ call'[c].pc = "txn"
            \/ /\ db' = Nil
               /\ \E c \in Callers :
                      /\ nops' # nops
                      /\ ret'[c].op = "Close"
                      /\ ret'[c].status = "ok"
        /\ \A c \in Callers :
               ( /\ prev'[c].op = "Close"
                 /\ prev'[c].status = "ok"
                 /\ call'[c].pc \in { "txn", "scan", "sleep" } )
               => /\ db' = call'[c].db
                  /\ engines'[db'].status = "open"
      ]_vars

\* An operation that returned success on the engine opened after a Close
\* had closed the one before.
C17_Witness ==
    \E c \in Callers :
        /\ ret[c].op \in { "Append", "Read", "ListKeys", "ListKeysForAggregate" }
        /\ ret[c].status = "ok"
        /\ prev[c].op = "Close"
        /\ prev[c].status = "ok"
        /\ prev[c].changed
        /\ ret[c].store = db
        /\ engines[db].status = "open"

(***************************************************************************)
(* C18.  Engine-open failure: when badger.Open fails, the operation that   *)
(* called kvstore returns an error with no values and no keys, nothing is  *)
(* written and the handle stays unset; an operation that enters kvstore    *)
(* with the handle unset goes to open an engine, and one that goes on to   *)
(* its transaction does so with the handle the store holds.                *)
(***************************************************************************)
\* Caller c's open fails in this step.
OpenFails(c) ==
    /\ call[c].pc = "open"
    /\ call'[c].pc = "idle"

C18_OpenFailure ==
    [][ \A c \in Callers :
          /\ OpenFails(c) =>
                /\ ret'[c].op = call[c].op
                /\ ret'[c].status = "error"
                /\ ret'[c].values = << >>
                /\ ret'[c].keys = << >>
                /\ engines' = engines
                /\ appended' = appended
                /\ db' = Nil
          /\ (call[c].pc \in { "idle", "kv" } /\ call'[c].pc \in { "open", "txn" })
                => IF db = Nil
                   THEN call'[c].pc = "open"
                   ELSE call'[c].pc = "txn" /\ call'[c].db = db
      ]_vars

\* A Read returned the error of an open that failed, on a store that had
\* an engine before, and the handle is unset.
C18_Witness ==
    \E c \in Callers :
        /\ ret[c].op = "Read"
        /\ ret[c].status = "error"
        /\ ret[c].store = Nil
        /\ db = Nil
        /\ engines # << >>

(***************************************************************************)
(* C19.  NewId is a function of its timestamp alone: two calls with the    *)
(* same time value return the same identifier, whatever calls were made    *)
(* in between.  Every record, stored or about to be, carries the time its  *)
(* Append read and the identifier NewId made of it: records with equal     *)
(* times carry equal identifiers, and each identifier is the millisecond   *)
(* of its time and the first read of a generator seeded with that time,    *)
(* whatever entropy source the calls before have left behind.              *)
(***************************************************************************)
\* The envelopes of the stored records and of the Appends in flight.
Envelopes ==
    UNION { { e.value : e \in engines[h].data } : h \in 1..Len(engines) }
        \cup { call[c].value : c \in { d \in Callers : call[d].op = "Append" } }

ReadOnlyOps == { "Read", "ListKeys", "ListKeysForAggregate" }

\* This step is one of a read-only operation of caller c.
ReadOnlyStep(c) ==
    \/ call[c].op \in ReadOnlyOps /\ call'[c] # call[c]
    \/ call[c].pc = "idle" /\ call'[c].op \in ReadOnlyOps

C20_ReadOnlyOperations ==
    [][ \A c \in Callers :
          ReadOnlyStep(c) =>
            /\ typeRegistery' = typeRegistery
            /\ gobRegistry' = gobRegistry
            /\ appended' = appended
            /\ \A h \in 1..Len(engines) : engines'[h] = engines[h]
            /\ \A h \in (Len(engines) + 1)..Len(engines') :
                   engines'[h] = [status |-> "open", data |-> rootDir]
            /\ db' # db => (db = Nil /\ db' = Len(engines') /\ db' > Len(engines))
      ]_vars

\* A Read returned the records of a store, and the store still holds them.
C20_Witness ==
    \E c \in Callers :
        /\ ret[c].op = "Read"
        /\ ret[c].status = "ok"
        /\ ret[c].values # << >>
        /\ Len(ScanPrefix(engines[ret[c].store].data, PrefixOf(ret[c].agg)))
               = Len(ret[c].values)

====
